---- MODULE Spec2Model ----
(***************************************************************************)
(* Draft/public publishing of django-publish (publish/models.py).          *)
(*                                                                         *)
(* Storage is one table of one Publishable model class, Page, that has    *)
(* every kind of relation publish_changes distinguishes:                  *)
(*     title   a plain field                                               *)
(*     ref     ForeignKey('self', null=True, on_delete=SET_NULL,           *)
(*                        related_name='referrers')                        *)
(*     parent  ForeignKey('self', null=True, on_delete=SET_NULL,           *)
(*                        related_name='children')                         *)
(*     tags    ManyToManyField('self', symmetrical=False)                  *)
(*     PublishMeta.publish_reverse_fields = ['children']                   *)
(* so 'children' is a declared reverse collection and 'referrers' an       *)
(* undeclared one.  Query sets are read in primary-key order.              *)
(***************************************************************************)
EXTENDS Integers, Sequences, FiniteSets, TLC

\* ----- bounds ------------------------------------------------------------
MaxId == 8          \* primary keys 1..MaxId (auto-increment, never reused)
MaxOps == 4         \* top-level calls per behaviour
NumDrafts == 3      \* drafts of a site that starts with drafts
MaxEdges == 3       \* references among those drafts
GraphOps == 1       \* publishing calls on such a site
EditOps == 2        \* calls on a published site that is edited
RoundOps == 2       \* calls of a round trip on a published site

\* ----- program constants -------------------------------------------------
PUBLISH_DEFAULT == 0
PUBLISH_CHANGED == 1
PUBLISH_DELETE == 2
Null == 0           \* a null foreign key / None

Ids == 1..MaxId
Unsaved == 0 - 1        \* the key of an instance never saved (pk is None)
Titles == {"a", "b"}
States == {PUBLISH_DEFAULT, PUBLISH_CHANGED, PUBLISH_DELETE}

VARIABLES
    db,       \* storage: primary key -> row
    nextId,   \* next primary key the table hands out
    old,      \* storage as it was before the last top-level call
    left,     \* top-level calls still to be made
    op,       \* the last top-level call: [name, id, dry, flag]
    vis,      \* all_published of the last call: the set of keys added
    log,      \* what the last call did, in order
    ret,      \* what the last call returned
    err,      \* the exception the last call raised, or "none"
    first,    \* what the call before returned, when the last call repeats a
              \* publish() that returned; Null otherwise
    nullsMatch \* a None in a pk__in list reaches the database as NULL (TRUE),
              \* or the installed Django drops it from the list (FALSE)

vars == <<db, nextId, old, left, op, vis, log, ret, err, first, nullsMatch>>

\* ----- rows and instances --------------------------------------------------
\* Model instance with the field defaults of models.py:138-142.
NewInstance(isPublic) ==
    [live |-> TRUE, is_public |-> isPublic, publish_state |-> PUBLISH_CHANGED,
     public |-> Null, title |-> "a", ref |-> Null, parent |-> Null, tags |-> {}]

\* A key with no row.
Blank == [NewInstance(FALSE) EXCEPT !.live = FALSE]

Live(d, i) == i \in Ids /\ d[i].live

\* (a slip: on_delete does nothing, the rows that pointed to x still do)
StorageDeleteDoNothing(d, x) ==
    [i \in Ids |-> IF i = x \/ ~d[i].live THEN Blank ELSE [d[i] EXCEPT !.tags = @ \ {x}]]

\* Model.delete() of the ORM: the row goes; public, ref and parent of other
\* rows that pointed to it are set to NULL (on_delete=SET_NULL) and its
\* many-to-many rows go with it.
StorageDelete(d, x) ==
    [i \in Ids |->
        IF i = x \/ ~d[i].live THEN Blank
        ELSE [d[i] EXCEPT !.public = IF @ = x THEN Null ELSE @,
                          !.ref = IF @ = x THEN Null ELSE @,
                          !.parent = IF @ = x THEN Null ELSE @,
                          !.tags = @ \ {x}]]

\* Model.save() of the ORM: UPDATE the row of this key, INSERT it when there
\* is none; the many-to-many rows are not part of the instance.
StorageSave(d, i, inst) ==
    [d EXCEPT ![i] = [inst EXCEPT !.live = TRUE,
                                  !.tags = IF d[i].live THEN d[i].tags ELSE {}]]

\* A foreign key of the instance names a row that is gone.
Dangling(d, inst) ==
    \E k \in {inst.public, inst.ref, inst.parent} : k # Null /\ ~Live(d, k)

\* ----- sequences -----------------------------------------------------------
RECURSIVE SortedSeq(_)
SortedSeq(S) ==
    IF S = {} THEN <<>>
    ELSE LET m == CHOOSE x \in S : \A y \in S : x <= y
         IN <<m>> \o SortedSeq(S \ {m})

Range(s) == {s[i] : i \in 1..Len(s)}

\* ----- the state threaded through one top-level call ------------------------
\* db, next: storage; vis: all_published; mem: the public key held in memory
\* by the instance that was added to all_published (what original(x).public
\* reads); log: events; err: the exception that is propagating.
\* An event of the log; a "save" carries the row that was written.
Ev(e, i, a, row) == [ev |-> e, id |-> i, arg |-> a, row |-> row]

Start(d, n) ==
    [db |-> d, next |-> n, vis |-> {}, mem |-> [i \in Ids |-> Null],
     log |-> <<>>, err |-> "none", nulls |-> nullsMatch]

Ok(ms) == ms.err = "none"
Raise(ms, e) == IF Ok(ms) THEN [ms EXCEPT !.err = e] ELSE ms
Emit(ms, e, i, a) == [ms EXCEPT !.log = Append(@, Ev(e, i, a, Blank))]

\* What a call hands back: the state, the returned public key, and the
\* public_id the called instance holds in memory afterwards.
Res(ms, r, p) == [ms |-> ms, ret |-> r, selfpub |-> p]

\* NestedSet (publish/utils.py): add, __contains__ and original.  Items are
\* model instances, equal when their keys are equal; original(x) is the
\* instance that was added for x's key.
TrackerAdd(ms, i, parent, inst) ==
    [ms EXCEPT !.vis = @ \cup {i}, !.mem[i] = inst.public]

TrackerContains(ms, i) == i \in ms.vis

TrackerOriginalPublic(ms, i) == ms.mem[i]

\* all_published.add(self, parent=parent)
AddVisited(ms, i, parent, inst) ==
    Emit(TrackerAdd(ms, i, parent, inst), "add", i, parent)

_pre_publish(ms, i, dry, deleted) ==
    IF dry THEN ms ELSE Emit(ms, IF deleted THEN "pre_deleted" ELSE "pre", i, Null)

_post_publish(ms, i, dry, deleted) ==
    IF dry \/ ~Ok(ms) THEN ms
    ELSE Emit(ms, IF deleted THEN "post_deleted" ELSE "post", i, Null)

\* The state an instance is written with: Publishable.save up to the call of
\* the ORM's save.
MarkChanged(inst, mark_changed) ==
    IF ~inst.is_public /\ mark_changed
    THEN [inst EXCEPT !.publish_state = PUBLISH_CHANGED]
    ELSE inst

\* (a slip: no check of the state)
SaveNeverRefused(inst, mark_changed) == FALSE

SaveRefused(inst, mark_changed) ==
    ~inst.is_public /\ mark_changed /\ inst.publish_state = PUBLISH_DELETE

\* Publishable.save on the instance with key i (Unsaved: a new row).
save(ms, i, inst, mark_changed) ==
    IF ~Ok(ms) THEN ms
    ELSE IF SaveRefused(inst, mark_changed) THEN Raise(ms, "PublishException")
    ELSE IF Dangling(ms.db, inst) THEN Raise(ms, "IntegrityError")
    ELSE LET k == IF i = Unsaved THEN ms.next ELSE i
             row == MarkChanged(inst, mark_changed)
         IN [ms EXCEPT !.db = StorageSave(@, k, row),
                       !.next = IF i = Unsaved THEN @ + 1 ELSE @,
                       !.log = Append(@, Ev("save", k, Null, row))]

\* super().delete(): the row of key i is removed.
Remove(ms, i) ==
    IF ~Ok(ms) THEN ms
    ELSE Emit([ms EXCEPT !.db = StorageDelete(@, i)], "delete", i, Null)

\* (a slip: the row is always removed)
deleteAlwaysRemoves(ms, i, inst, mark_for_deletion) == Remove(ms, i)

\* Publishable.delete on the instance with key i.
delete(ms, i, inst, mark_for_deletion) ==
    IF inst.public # Null /\ mark_for_deletion
    THEN save(ms, i, [inst EXCEPT !.publish_state = PUBLISH_DELETE], FALSE)
    ELSE Remove(ms, i)

undelete(ms, i, inst) ==
    save(ms, i, [inst EXCEPT !.publish_state = PUBLISH_CHANGED], FALSE)

\* public_version = self.public, or a new public instance.
GetPublicVersion(d, inst) ==
    IF inst.public # Null THEN d[inst.public] ELSE NewInstance(TRUE)

\* PublishMeta.publish_exclude_fields of Publishable, and of Page, whose
\* PublishMeta(Publishable.PublishMeta) declares none of its own.
publish_exclude_fields == {"id", "is_public", "publish_state", "public", "draft"}
PageExcludeFields == {}

\* PublishMeta._combined_fields: the lists of every class of the __mro__,
\* joined.
_combined_fields(mro) == UNION {mro[k] : k \in 1..Len(mro)}

\* (a slip: the list of the subclass replaces the inherited one)
excluded_fieldsOwnOnly(own) == own

\* PublishMeta.excluded_fields of a model whose own PublishMeta lists own.
excluded_fields(own) == _combined_fields(<<own, publish_exclude_fields>>)

\* self._meta.fields of Page, but for id.
ModelFields == {"is_public", "publish_state", "public", "title", "ref", "parent"}

\* The field loop's assignments: every field not in excluded_fields takes the
\* draft's value, a foreign key the public row it resolved to.
CopyFields(pv, inst, refv, parentv) ==
    LET value == [inst EXCEPT !.ref = refv, !.parent = parentv]
    IN [f \in DOMAIN pv |->
           IF f \in ModelFields \ excluded_fields(PageExcludeFields)
           THEN value[f] ELSE pv[f]]

\* The key of public_version once publish_changes has saved it.
PublicKey(ms, inst) == IF inst.public # Null THEN inst.public ELSE ms.next

\* (a slip: the state is not reset)
PublishedStateKept(inst, pvid) == [inst EXCEPT !.public = pvid]

\* The draft as publish_changes saves it.
Published(inst, pvid) ==
    [inst EXCEPT !.public = pvid, !.publish_state = PUBLISH_DEFAULT]

\* (a slip: dry_run is not looked at)
SavePublishedWhenDry(ms, i, inst, pv, dry) ==
    IF ~Ok(ms) THEN ms
    ELSE LET k == IF inst.public # Null THEN inst.public ELSE ms.next
             m2 == save(ms, IF inst.public # Null THEN k ELSE Unsaved, pv, TRUE)
         IN save(m2, i, [inst EXCEPT !.public = k, !.publish_state = PUBLISH_DEFAULT],
                 FALSE)

\* public_version.save(); self.public = public_version; self.publish_state =
\* PUBLISH_DEFAULT; self.save(mark_changed=False).
SavePublished(ms, i, inst, pv, dry) ==
    IF dry \/ ~Ok(ms) THEN ms
    ELSE LET k == PublicKey(ms, inst)
             m1 == Emit(ms, "copy", i, k)
             m2 == save(m1, IF inst.public # Null THEN k ELSE Unsaved, pv, TRUE)
             m3 == save(m2, i, Published(inst, k), FALSE)
         IN IF Ok(m3) THEN [m3 EXCEPT !.mem[i] = k] ELSE m3

\* remove(*old_objs); add(*public_objs) on the public version's manager.
\* add() of None breaks the NOT NULL constraint of the join table.
ReplaceM2M(ms, pvid, objs, dry) ==
    IF dry \/ ~Ok(ms) THEN ms
    ELSE IF ~Live(ms.db, pvid) THEN Raise(ms, "IntegrityError")
    ELSE IF Null \in Range(objs)
    THEN Raise(Emit([ms EXCEPT !.db[pvid].tags = {}], "m2m", pvid, Null),
               "IntegrityError")
    ELSE Emit([ms EXCEPT !.db[pvid].tags = Range(objs)], "m2m", pvid, Null)

\* (a slip: an undeclared reverse relation is not walked)
ReferrersUndeclared(d, i) == {}

\* getattr(self, 'children').all() / getattr(self, 'referrers').all()
Children(d, i) == {k \in Ids : d[k].live /\ d[k].parent = i}
Referrers(d, i) == {k \in Ids : d[k].live /\ d[k].ref = i}

\* getattr(self.public, name).exclude(pk__in=public_ids).  A None in the list
\* reaches the database as NULL, and NOT (pk IN (.., NULL)) is true of no
\* row, unless the installed Django drops None from the list first.
DeletedItems(ms, pvid, public_ids) ==
    IF Null \in Range(public_ids) /\ ms.nulls THEN {}
    ELSE Children(ms.db, pvid) \ Range(public_ids)

\* PublishableQuerySet.delete: for p in self: p.delete(mark_for_deletion)
RECURSIVE QuerySetDelete(_, _, _, _)
QuerySetDelete(ms, items, snap, mark_for_deletion) ==
    IF items = <<>> THEN ms
    ELSE QuerySetDelete(delete(ms, Head(items), snap[Head(items)], mark_for_deletion),
                        Tail(items), snap, mark_for_deletion)

\* "make sure we tidy up anything that needs deleting"
PruneReverse(ms, pvid, public_ids, dry) ==
    IF dry \/ ~Ok(ms) THEN ms
    ELSE QuerySetDelete(ms, SortedSeq(DeletedItems(ms, pvid, public_ids)), ms.db, FALSE)

\* (a slip: the public row is left in storage)
DeleteBothDraftOnly(ms, i, inst, dry) ==
    IF dry \/ ~Ok(ms) THEN ms
    ELSE delete(ms, i, inst, FALSE)

\* (a slip: the public row is removed first)
DeleteBothPublicFirst(ms, i, inst, dry) ==
    IF dry \/ ~Ok(ms) THEN ms
    ELSE IF inst.public # Null /\ ~Live(ms.db, inst.public)
    THEN Raise(ms, "DoesNotExist")
    ELSE IF inst.public # Null
    THEN Remove(Remove(ms, inst.public), i)
    ELSE Remove(ms, i)

\* The end of publish_deletions: the draft's row, then its public row.
DeleteBoth(ms, i, inst, dry) ==
    IF dry \/ ~Ok(ms) THEN ms
    ELSE IF inst.public # Null /\ ~Live(ms.db, inst.public)
    THEN Raise(ms, "DoesNotExist")
    ELSE LET m1 == delete(ms, i, inst, FALSE)
         IN IF inst.public # Null
            THEN delete(m1, inst.public, m1.db[inst.public], FALSE)
            ELSE m1

\* The two checks publish and unpublish start with.
PublishRefused(i, inst) == inst.is_public \/ i = Unsaved

\* (a slip: only the key is checked)
UnpublishChecksKeyOnly(i, inst) == i = Unsaved

UnpublishRefused(i, inst) == inst.is_public \/ i = Unsaved

RECURSIVE publish(_, _, _, _, _), publish_changes(_, _, _, _, _),
          publish_deletions(_, _, _, _, _), _get_public_or_publish(_, _, _, _),
          ResolveAll(_, _, _, _), PublishAll(_, _, _, _, _),
          DeletionsAll(_, _, _, _, _)

publish(ms, i, inst, dry, parent) ==
    IF ~Ok(ms) THEN Res(ms, Null, inst.public)
    ELSE IF PublishRefused(i, inst)
    THEN Res(Raise(ms, "PublishException"), Null, inst.public)
    ELSE IF inst.publish_state = PUBLISH_DELETE
    THEN Res(publish_deletions(ms, i, inst, parent, dry), Null, inst.public)
    ELSE publish_changes(ms, i, inst, dry, parent)

\* value._get_public_or_publish(...) on the related instance of key t, read
\* from storage when the field is accessed.
_get_public_or_publish(ms, t, dry, parent) ==
    IF ~Ok(ms) \/ t = Null THEN Res(ms, Null, Null)
    ELSE IF ~Live(ms.db, t) THEN Res(Raise(ms, "DoesNotExist"), Null, Null)
    ELSE IF ms.db[t].public # Null THEN Res(ms, ms.db[t].public, ms.db[t].public)
    ELSE publish(ms, t, ms.db[t], dry, parent)

\* [p._get_public_or_publish(...) for p in public_objs]
ResolveAll(ms, items, dry, parent) ==
    IF items = <<>> THEN [ms |-> ms, rets |-> <<>>]
    ELSE LET r == _get_public_or_publish(ms, Head(items), dry, parent)
             rest == ResolveAll(r.ms, Tail(items), dry, parent)
         IN [ms |-> rest.ms, rets |-> <<r.ret>> \o rest.rets]

\* for related_item in related_items: related_item.publish(...); the
\* instances are the ones the query returned (rows of snap), and pubs is
\* [r.public_id for r in related_items] afterwards.
PublishAll(ms, items, snap, dry, parent) ==
    IF items = <<>> THEN [ms |-> ms, pubs |-> <<>>]
    ELSE LET r == publish(ms, Head(items), snap[Head(items)], dry, parent)
             rest == PublishAll(r.ms, Tail(items), snap, dry, parent)
         IN [ms |-> rest.ms, pubs |-> <<r.selfpub>> \o rest.pubs]

\* for instance in instances: instance.publish_deletions(...)
DeletionsAll(ms, items, snap, parent, dry) ==
    IF items = <<>> THEN ms
    ELSE DeletionsAll(publish_deletions(ms, Head(items), snap[Head(items)], parent, dry),
                      Tail(items), snap, parent, dry)

publish_changes(ms, i, inst, dry, parent) ==
    IF ~Ok(ms) THEN Res(ms, Null, inst.public)
    ELSE IF TrackerContains(ms, i)
    THEN Res(ms, TrackerOriginalPublic(ms, i), inst.public)
    ELSE
    LET m0 == _pre_publish(AddVisited(ms, i, parent, inst), i, dry, FALSE)
        m1 == IF inst.public # Null /\ ~Live(m0.db, inst.public)
              THEN Raise(m0, "DoesNotExist") ELSE m0
        pv0 == GetPublicVersion(m0.db, inst)
        rref == _get_public_or_publish(m1, inst.ref, dry, i)
        rpar == _get_public_or_publish(rref.ms, inst.parent, dry, i)
        pv1 == CopyFields(pv0, inst, rref.ret, rpar.ret)
        m2 == SavePublished(rpar.ms, i, inst, pv1, dry)
        pvid == IF dry THEN (IF inst.public # Null THEN inst.public ELSE Unsaved)
                ELSE m2.mem[i]
        rtags == ResolveAll(m2, SortedSeq(m2.db[i].tags), dry, i)
        m3 == ReplaceM2M(rtags.ms, pvid, rtags.rets, dry)
        rk == PublishAll(m3, SortedSeq(Children(m3.db, i)), m3.db, dry, i)
        m4 == PruneReverse(rk.ms, pvid, rk.pubs, dry)
        m5 == _post_publish(m4, i, dry, FALSE)
    IN Res(m5, IF Ok(m5) THEN pvid ELSE Null, IF dry THEN inst.public ELSE pvid)

publish_deletions(ms, i, inst, parent, dry) ==
    IF ~Ok(ms) THEN ms
    ELSE IF inst.publish_state # PUBLISH_DELETE THEN ms
    ELSE IF TrackerContains(ms, i) THEN ms
    ELSE
    LET m0 == _pre_publish(AddVisited(ms, i, parent, inst), i, dry, TRUE)
        m1 == DeletionsAll(m0, SortedSeq(Referrers(m0.db, i)), m0.db, i, dry)
        m2 == DeletionsAll(m1, SortedSeq(Children(m1.db, i)), m1.db, i, dry)
        m3 == DeleteBoth(m2, i, inst, dry)
    IN _post_publish(m3, i, dry, TRUE)

\* Publishable.unpublish on the draft instance of key i.
unpublish(ms, i, inst, dry) ==
    IF UnpublishRefused(i, inst)
    THEN Res(Raise(ms, "UnpublishException"), Null, Null)
    ELSE IF inst.public # Null /\ ~dry
    THEN LET m1 == save(ms, i, [inst EXCEPT !.public = Null], TRUE)
         IN Res(delete(m1, inst.public, m1.db[inst.public], FALSE),
                IF Ok(m1) THEN inst.public ELSE Null, Null)
    ELSE Res(ms, inst.public, inst.public)

\* (a slip: every item gets an all_published of its own)
RECURSIVE QuerySetPublishOwnTracker(_, _, _)
QuerySetPublishOwnTracker(ms, items, snap) ==
    IF items = <<>> \/ ~Ok(ms) THEN ms
    ELSE LET m0 == Emit([ms EXCEPT !.vis = {}, !.mem = [i \in Ids |-> Null]],
                        "item", Head(items), Null)
             after == publish(m0, Head(items), snap[Head(items)], FALSE, Null).ms
         IN CHOOSE m \in {QuerySetPublishOwnTracker(r, Tail(items), snap) : r \in {after}} :
                TRUE

\* PublishableQuerySet.publish: for p in self: p.publish(all_published=
\* all_published), on the instances the query returned (rows of snap).  An
\* exception ends the loop.  The log notes each item the loop comes to.
\* (The state after each item is bound as a value before the next starts.)
RECURSIVE QuerySetPublish(_, _, _)
QuerySetPublish(ms, items, snap) ==
    IF items = <<>> \/ ~Ok(ms) THEN ms
    ELSE LET m0 == Emit(ms, "item", Head(items), Null)
             after == publish(m0, Head(items), snap[Head(items)], FALSE, Null).ms
         IN CHOOSE m \in {QuerySetPublish(r, Tail(items), snap) : r \in {after}} : TRUE

\* ----- top-level calls -----------------------------------------------------
Drafts(d) == {i \in Ids : d[i].live /\ ~d[i].is_public}
Publics(d) == {i \in Ids : d[i].live /\ d[i].is_public}

\* The last call: its name, the key it was called on, dry_run and its other
\* flag (mark_changed, mark_for_deletion).
Call(name, i, dry, flag) == [name |-> name, id |-> i, dry |-> dry, flag |-> flag]

NoOp == Call("init", Null, FALSE, FALSE)

\* The row the last call was made on, as it was before the call.
Was == IF op.id \in Ids THEN old[op.id] ELSE Blank

\* The call returned (or raised) with final state ms: storage keeps what was
\* written, there is no transaction around a call.
Finish(call, ms, r) ==
    /\ left > 0
    /\ ms.next <= MaxId + 1
    /\ db' = ms.db
    /\ nextId' = ms.next
    /\ old' = db
    /\ left' = left - 1
    /\ op' = call
    /\ vis' = ms.vis
    /\ log' = ms.log
    /\ ret' = IF Ok(ms) THEN r ELSE Null
    /\ err' = ms.err
    /\ first' = IF call.name = "publish" /\ ~call.dry /\ call = op /\ err = "none"
                THEN ret ELSE Null
    /\ UNCHANGED nullsMatch

\* Page(title=t).save()
Create ==
    \E t \in Titles :
        LET inst == [NewInstance(FALSE) EXCEPT !.title = t]
        IN Finish(Call("create", nextId, FALSE, TRUE), save(Start(db, nextId), Unsaved, inst, TRUE), Null)

\* d.title = t; d.save(mark_changed)
SaveTitle ==
    \E i \in Drafts(db), t \in Titles, mc \in BOOLEAN :
        Finish(Call("save", i, FALSE, mc),
               save(Start(db, nextId), i, [db[i] EXCEPT !.title = t], mc), Null)

\* d.ref = r; d.save()
SaveRef ==
    \E i \in Drafts(db), r \in Drafts(db) \cup {Null} :
        Finish(Call("save", i, FALSE, TRUE),
               save(Start(db, nextId), i, [db[i] EXCEPT !.ref = r], TRUE), Null)

\* d.parent = p; d.save()
SaveParent ==
    \E i \in Drafts(db), p \in Drafts(db) \cup {Null} :
        Finish(Call("save", i, FALSE, TRUE),
               save(Start(db, nextId), i, [db[i] EXCEPT !.parent = p], TRUE), Null)

\* d.tags.set(S): the many-to-many manager writes the join table only.
SetTags ==
    \E i \in Drafts(db), S \in SUBSET Drafts(db) :
        /\ S # db[i].tags
        /\ Finish(Call("set_tags", i, FALSE, FALSE),
                  Emit([Start(db, nextId) EXCEPT !.db[i].tags = S], "m2m", i, Null), Null)

Delete ==
    \E i \in Drafts(db) \cup Publics(db), mark \in BOOLEAN :
        Finish(Call("delete", i, FALSE, mark), delete(Start(db, nextId), i, db[i], mark), Null)

Undelete ==
    \E i \in Drafts(db) :
        Finish(Call("undelete", i, FALSE, FALSE), undelete(Start(db, nextId), i, db[i]), Null)

Publish ==
    \E i \in Drafts(db) \cup Publics(db), dry \in BOOLEAN :
        LET r == publish(Start(db, nextId), i, db[i], dry, Null)
        IN Finish(Call("publish", i, dry, FALSE), r.ms, r.ret)

\* publish() on an instance that was never saved
PublishUnsaved ==
    \E dry \in BOOLEAN :
        LET r == publish(Start(db, nextId), Unsaved, NewInstance(FALSE), dry, Null)
        IN Finish(Call("publish", Unsaved, dry, FALSE), r.ms, r.ret)

Unpublish ==
    \E i \in Drafts(db) \cup Publics(db), dry \in BOOLEAN :
        LET r == unpublish(Start(db, nextId), i, db[i], dry)
        IN Finish(Call("unpublish", i, dry, FALSE), r.ms, r.ret)

UnpublishUnsaved ==
    \E dry \in BOOLEAN :
        LET r == unpublish(Start(db, nextId), Unsaved, NewInstance(FALSE), dry)
        IN Finish(Call("unpublish", Unsaved, dry, FALSE), r.ms, r.ret)

PublishDeletions ==
    \E i \in Drafts(db), dry \in BOOLEAN :
        Finish(Call("publish_deletions", i, dry, FALSE),
               publish_deletions(Start(db, nextId), i, db[i], Null, dry), Null)

\* Page.objects.filter(pk__in=S).publish(): the admin's publish action on
\* the drafts selected.
PublishSelected ==
    \E S \in SUBSET Drafts(db) :
        /\ S # {}
        /\ Finish(Call("publish_selected", Null, FALSE, FALSE),
                  QuerySetPublish(Start(db, nextId), SortedSeq(S), db), Null)

EmptyInit ==
    /\ db = [i \in Ids |-> Blank]
    /\ nextId = 1
    /\ old = db
    /\ left = MaxOps
    /\ op = NoOp
    /\ vis = {}
    /\ log = <<>>
    /\ ret = Null
    /\ err = "none"
    /\ first = Null
    /\ nullsMatch \in BOOLEAN

Next ==
    \/ Create
    \/ SaveTitle
    \/ SaveRef
    \/ SaveParent
    \/ SetTags
    \/ Delete
    \/ Undelete
    \/ Publish
    \/ PublishUnsaved
    \/ Unpublish
    \/ UnpublishUnsaved
    \/ PublishDeletions

Spec == EmptyInit /\ [][Next]_vars

\* ----- sites that already hold drafts ----------------------------------------
\* NumDrafts drafts with keys 1..NumDrafts, related by at most MaxEdges
\* references: what Create, SaveRef, SaveParent and SetTags build.
Keys == 1..NumDrafts
Others(i) == Keys \ {i}

Graphs ==
    {g \in [ref : [Keys -> Keys \cup {Null}], parent : [Keys -> Keys \cup {Null}],
            tags : [Keys -> SUBSET Keys]] :
        /\ \A i \in Keys : /\ g.ref[i] \in Others(i) \cup {Null}
                           /\ g.parent[i] \in Others(i) \cup {Null}
                           /\ g.tags[i] \subseteq Others(i)
        /\ Cardinality({i \in Keys : g.ref[i] # Null})
             + Cardinality({i \in Keys : g.parent[i] # Null})
             + Cardinality({e \in Keys \X Keys : e[2] \in g.tags[e[1]]}) <= MaxEdges}

Created(g) ==
    [i \in Ids |->
        IF i \in Keys
        THEN [NewInstance(FALSE) EXCEPT !.ref = g.ref[i], !.parent = g.parent[i],
                                        !.tags = g.tags[i]]
        ELSE Blank]

\* publish() called on each of the drafts in turn, each call with its own
\* all_published.  (The state after each call is bound as a value before the
\* next call starts from it.)
RECURSIVE PublishEach(_, _)
PublishEach(ms, items) ==
    IF items = <<>> THEN ms
    ELSE LET i == Head(items)
             after == IF Live(ms.db, i)
                      THEN publish(Start(ms.db, ms.next), i, ms.db[i], FALSE, Null).ms
                      ELSE ms
         IN CHOOSE m \in {PublishEach(r, Tail(items)) : r \in {after}} : TRUE

\* The site of g: its drafts, each published in turn.  A graph starts as
\* the drafts before any publish, or as the site with some drafts deleted.
Site(g) == PublishEach(Start(Created(g), NumDrafts + 1), SortedSeq(Keys))

\* Page.objects.filter(pk__in=marked).delete() on a site.
Marked(site, marked) ==
    QuerySetDelete(Start(site.db, site.next), SortedSeq(marked), site.db, TRUE)

GraphInit ==
    /\ nullsMatch \in BOOLEAN
    /\ \E g \in Graphs :
          \/ db = Created(g) /\ nextId = NumDrafts + 1
          \/ \E site \in {Site(g)} : \E marked \in SUBSET Keys :
                \E ms \in {Marked(site, marked)} : db = ms.db /\ nextId = ms.next
    /\ old = db
    /\ left = GraphOps
    /\ op = NoOp
    /\ vis = {}
    /\ log = <<>>
    /\ ret = Null
    /\ err = "none"
    /\ first = Null

\* One publishing call on such a graph.
GraphNext ==
    \/ Publish
    \/ PublishDeletions

SpecGraph == GraphInit /\ [][GraphNext]_vars

\* Editing a published site: drafts are moved to another parent and published.
EditInit ==
    /\ nullsMatch \in BOOLEAN
    /\ \E g \in Graphs : \E ms \in {Site(g)} : db = ms.db /\ nextId = ms.next
    /\ old = db
    /\ left = EditOps
    /\ op = NoOp
    /\ vis = {}
    /\ log = <<>>
    /\ ret = Null
    /\ err = "none"
    /\ first = Null

EditNext ==
    \/ SaveParent
    \/ Publish

SpecEdit == EditInit /\ [][EditNext]_vars

\* One call on such a graph: publish() of a query set of its drafts.  (A
\* query set of one draft is one publish() call of that draft.)
BatchNext == PublishSelected

SpecBatch == GraphInit /\ [][BatchNext]_vars

\* A published site, some of its drafts marked for deletion, on which one
\* draft is taken through a round trip: unpublish() and, once that has
\* returned its public row, publish() of the same draft; or undelete() of a
\* draft that was PENDING_DELETE and, once that has returned, a save() of
\* the same draft.
\* The graphs of the round trip: as Graphs, and a draft's ref may name the
\* draft itself.
RoundGraphs ==
    {g \in [ref : [Keys -> Keys \cup {Null}], parent : [Keys -> Keys \cup {Null}],
            tags : [Keys -> SUBSET Keys]] :
        /\ \A i \in Keys : /\ g.parent[i] \in Others(i) \cup {Null}
                           /\ g.tags[i] \subseteq Others(i)
        /\ Cardinality({i \in Keys : g.ref[i] # Null})
             + Cardinality({i \in Keys : g.parent[i] # Null})
             + Cardinality({e \in Keys \X Keys : e[2] \in g.tags[e[1]]}) <= MaxEdges}

RoundInit ==
    /\ nullsMatch \in BOOLEAN
    /\ \E g \in RoundGraphs : \E site \in {Site(g)} : \E marked \in SUBSET Keys :
          \E ms \in {Marked(site, marked)} : db = ms.db /\ nextId = ms.next
    /\ old = db
    /\ left = RoundOps
    /\ op = NoOp
    /\ vis = {}
    /\ log = <<>>
    /\ ret = Null
    /\ err = "none"
    /\ first = Null

\* The last call was an unpublish() (not dry) of a draft with a public row,
\* and it returned.
Unpublished ==
    /\ op.name = "unpublish" /\ ~op.dry /\ err = "none"
    /\ Was.live /\ ~Was.is_public /\ Was.public # Null

\* The last call was an undelete() of a PENDING_DELETE draft, and it
\* returned.
Undeleted ==
    /\ op.name = "undelete" /\ err = "none"
    /\ Was.live /\ ~Was.is_public /\ Was.publish_state = PUBLISH_DELETE

RoundNext ==
    \/ left = RoundOps /\ Unpublish
    \/ left = RoundOps /\ Undelete
    \/ left < RoundOps /\ Unpublished /\ Publish /\ op'.id = op.id
    \/ left < RoundOps /\ Undeleted /\ SaveTitle /\ op'.id = op.id

SpecRound == RoundInit /\ [][RoundNext]_vars

\* ----- claims ----------------------------------------------------------------
IsDraftRow(r) == r.live /\ ~r.is_public

\* C1: a created draft is CHANGED with no public; a publish() (not dry) of a
\* draft that is not PENDING_DELETE leaves it DEFAULT with public naming a
\* live public row, the same row as before if it had one, and returns it; a
\* save() with mark_changed makes the draft CHANGED.
C1_Lifecycle ==
    /\ (op.name = "create" /\ err = "none") =>
          /\ IsDraftRow(db[op.id])
          /\ db[op.id].publish_state = PUBLISH_CHANGED
          /\ db[op.id].public = Null
    /\ (/\ op.name = "publish" /\ ~op.dry /\ err = "none"
        /\ IsDraftRow(Was) /\ Was.publish_state # PUBLISH_DELETE) =>
          /\ IsDraftRow(db[op.id])
          /\ db[op.id].publish_state = PUBLISH_DEFAULT
          /\ db[op.id].public # Null
          /\ Live(db, db[op.id].public)
          /\ db[db[op.id].public].is_public
          /\ ret = db[op.id].public
          /\ Was.public # Null => db[op.id].public = Was.public
    /\ (op.name = "save" /\ op.flag /\ err = "none" /\ IsDraftRow(Was)) =>
          db[op.id].publish_state = PUBLISH_CHANGED

\* A draft that was published and then changed has been published again.
C1_Witness ==
    /\ op.name = "publish" /\ ~op.dry /\ err = "none"
    /\ IsDraftRow(Was)
    /\ Was.publish_state = PUBLISH_CHANGED
    /\ Was.public # Null
    /\ db[op.id].publish_state = PUBLISH_DEFAULT
    /\ db[op.id].public = Was.public

\* ----- events of the last call -------------------------------------------------
Positions(e, i) == {n \in 1..Len(log) : log[n].ev = e /\ log[n].id = i}
Count(e, i) == Cardinality(Positions(e, i))
Writes == {n \in 1..Len(log) : log[n].ev \in {"save", "delete", "m2m"}}
Removals == {n \in 1..Len(log) : log[n].ev = "delete"}

RealPublishOfDraft ==
    /\ op.name = "publish" /\ ~op.dry
    /\ IsDraftRow(Was) /\ Was.publish_state # PUBLISH_DELETE

\* x has a public row, and the last call wrote the fields of x once, to it.
PublishedOnce(x) ==
    /\ db[x].live /\ db[x].public # Null
    /\ Live(db, db[x].public) /\ db[db[x].public].is_public
    /\ Count("add", x) = 1
    /\ Count("copy", x) = 1
    /\ \A n \in Positions("copy", x) : log[n].arg = db[x].public

\* A and B are drafts without public that refer to each other through ref.
MutualCycle(d, a, b) ==
    /\ a # b /\ Live(d, a) /\ Live(d, b)
    /\ ~d[a].is_public /\ ~d[b].is_public
    /\ d[a].ref = b /\ d[b].ref = a
    /\ d[a].public = Null /\ d[b].public = Null
    /\ d[a].publish_state # PUBLISH_DELETE /\ d[b].publish_state # PUBLISH_DELETE

\* C2: publish(A) of a draft A in a mutual reference cycle with B returns
\* normally; afterwards A and B each have one public row, and each was added
\* to all_published once and had its fields copied once.
C2_CycleOnce ==
    (RealPublishOfDraft /\ MutualCycle(old, op.id, Was.ref)) =>
        /\ err = "none"
        /\ PublishedOnce(op.id)
        /\ PublishedOnce(Was.ref)
        /\ db[op.id].public # db[Was.ref].public

\* C3: publish(dry_run=True) and publish_deletions(dry_run=True) leave
\* storage as it was and write nothing.
C3_DryRunWritesNothing ==
    (op.dry /\ op.name \in {"publish", "publish_deletions"}) =>
        /\ db = old
        /\ Writes = {}

\* A dry run that walks from a published draft to a child marked for
\* deletion.
C3_Witness ==
    /\ op.dry /\ op.name = "publish" /\ err = "none"
    /\ Was.publish_state = PUBLISH_DEFAULT /\ Was.public # Null
    /\ \E i \in vis : old[i].parent = op.id /\ old[i].publish_state = PUBLISH_DELETE
    /\ db = old

\* C4: the keys a publish() adds to all_published are the keys the dry run
\* from the same storage adds.
C4_DryRunSameVisited ==
    RealPublishOfDraft =>
        vis = publish(Start(old, nextId), op.id, Was, TRUE, Null).ms.vis

\* The place of the removal of row x in the last call.
RemovalOf(x) == CHOOSE n \in Positions("delete", x) : TRUE
LastRemoval == CHOOSE n \in Removals : \A m \in Removals : m <= n

\* publish_deletions() was called on a draft marked for deletion whose
\* children are all drafts marked for deletion, each with its public row.
DeletionOfFamily ==
    /\ op.name = "publish_deletions" /\ ~op.dry
    /\ IsDraftRow(Was) /\ Was.publish_state = PUBLISH_DELETE
    /\ Live(old, Was.public)
    /\ Children(old, op.id) # {}
    /\ \A c \in Children(old, op.id) :
          /\ IsDraftRow(old[c]) /\ old[c].publish_state = PUBLISH_DELETE
          /\ Live(old, old[c].public)

\* Every child's draft and public row is removed, once, before a row of the
\* parent is.
ChildrenRemovedFirst ==
    /\ err = "none"
    /\ Count("delete", op.id) = 1 /\ Count("delete", Was.public) = 1
    /\ \A c \in Children(old, op.id) : \A x \in {c, old[c].public} :
          /\ Count("delete", x) = 1
          /\ RemovalOf(x) < RemovalOf(op.id)
          /\ RemovalOf(x) < RemovalOf(Was.public)

\* C5 (as claimed): the children's public rows are removed before the
\* parent's public row, and the parent's draft is the last row removed.
C5_DraftRemovedLast ==
    DeletionOfFamily =>
        /\ ChildrenRemovedFirst
        /\ LastRemoval = RemovalOf(op.id)

\* C5: the children's rows are removed before the parent's; the parent's
\* draft is removed next and its public row straight after it, as the last
\* row removed.
C5_DeletionOrder ==
    DeletionOfFamily =>
        /\ ChildrenRemovedFirst
        /\ RemovalOf(Was.public) = RemovalOf(op.id) + 1
        /\ LastRemoval = RemovalOf(Was.public)

C5_Witness ==
    /\ DeletionOfFamily
    /\ Cardinality(Children(old, op.id)) = 2
    /\ Cardinality(Removals) = 6
    /\ Drafts(db) = {} /\ Publics(db) = {}

\* C6: after publish(D) the many-to-many relation of D's public row holds the
\* public rows of the drafts in D's relation, and each of them has one.
C6_M2MReplaced ==
    (RealPublishOfDraft /\ err = "none") =>
        /\ db[op.id].live /\ db[op.id].public # Null
        /\ \A x \in db[op.id].tags : db[x].public # Null
        /\ db[db[op.id].public].tags = {db[x].public : x \in db[op.id].tags}

\* C7: a publish() that repeats the publish() just made on the same draft
\* returns the same public row, changes no field of it, creates no public
\* row and leaves the draft in PUBLISH_DEFAULT with the same public.
C7_PublishTwice ==
    (first # Null /\ RealPublishOfDraft) =>
        /\ err = "none"
        /\ ret = first
        /\ db[first] = old[first]
        /\ Publics(db) = Publics(old)
        /\ db[op.id].publish_state = PUBLISH_DEFAULT
        /\ db[op.id].public = Was.public

C9_SavePendingDelete ==
    (/\ op.name = "save"
     /\ IsDraftRow(Was)
     /\ Was.publish_state = PUBLISH_DELETE) =>
          IF op.flag
          THEN err = "PublishException" /\ db = old
          ELSE /\ err = "none"
               /\ db[op.id].live
               /\ db[op.id].publish_state = PUBLISH_DELETE

C9_Witness ==
    /\ op.name = "save" /\ op.flag
    /\ IsDraftRow(Was)
    /\ Was.publish_state = PUBLISH_DELETE
    /\ err = "PublishException"
    /\ db[op.id].publish_state = PUBLISH_DELETE

\* C10: delete() (mark_for_deletion) of a row that has a public only sets its
\* state to PENDING_DELETE, every other row and field staying as it was;
\* delete() of a row without public removes that row and no other.
C10_LogicalDelete ==
    (op.name = "delete" /\ op.flag) =>
          IF Was.public # Null
          THEN /\ err = "none"
               /\ db = [old EXCEPT ![op.id].publish_state = PUBLISH_DELETE]
          ELSE /\ ~db[op.id].live
               /\ \A j \in Ids \ {op.id} : db[j].live = old[j].live

C10_Witness ==
    /\ op.name = "delete" /\ op.flag
    /\ Was.public # Null
    /\ Was.publish_state # PUBLISH_DELETE
    /\ db[op.id].publish_state = PUBLISH_DELETE
    /\ Live(db, db[op.id].public)

\* C11 (as claimed): unpublish() (not dry) of a saved draft that has a public
\* row, whatever its state, returns normally with the draft's public cleared
\* in storage and the former public row removed by one direct removal, never
\* written as PENDING_DELETE; with dry_run nothing is written and the public
\* row is returned.
C11_Unpublish ==
    (op.name = "unpublish" /\ IsDraftRow(Was) /\ Was.public # Null) =>
        IF op.dry
        THEN err = "none" /\ db = old /\ log = <<>> /\ ret = Was.public
        ELSE /\ err = "none"
             /\ ret = Was.public
             /\ IsDraftRow(db[op.id])
             /\ db[op.id].public = Null
             /\ ~Live(db, Was.public)
             /\ Count("delete", Was.public) = 1
             /\ Count("save", Was.public) = 0

\* publish() (not dry) was called on a saved draft that is PENDING_DELETE.
DeletionPublish ==
    /\ op.name = "publish" /\ ~op.dry
    /\ IsDraftRow(Was) /\ Was.publish_state = PUBLISH_DELETE

\* C12: publish() (not dry) of a draft that is PENDING_DELETE copies no
\* field, returns None, and ends with the draft's row and its public row, if
\* it had one, gone from storage; publish_deletions() of a draft that is not
\* PENDING_DELETE writes nothing and adds nothing to all_published.
C12_DeletionPass ==
    /\ DeletionPublish =>
          /\ err = "none"
          /\ ret = Null
          /\ \A n \in 1..Len(log) : log[n].ev # "copy"
          /\ ~db[op.id].live
          /\ Was.public # Null => ~Live(db, Was.public)
    /\ (/\ op.name = "publish_deletions"
        /\ IsDraftRow(Was) /\ Was.publish_state # PUBLISH_DELETE) =>
          /\ err = "none"
          /\ db = old
          /\ vis = {}
          /\ log = <<>>

\* A deletion pass that removed a draft with its public row and a child of
\* it with its own.
C12_Witness ==
    /\ DeletionPublish
    /\ err = "none"
    /\ Was.public # Null /\ ~Live(db, Was.public) /\ ~db[op.id].live
    /\ \E c \in vis \ {op.id} : old[c].parent = op.id /\ ~db[c].live

\* Row p mirrors the foreign key t of a draft: t names a draft that has a
\* public row, and p's foreign key v names that public row.
Mirrored(t, v) ==
    t # Null =>
        /\ Live(db, t) /\ db[t].public # Null
        /\ Live(db, db[t].public) /\ db[db[t].public].is_public
        /\ v = db[t].public

\* C13: after a publish() (not dry) of draft D that returns, every forward
\* foreign key of D that names a draft T is mirrored: T has a public row and
\* the same foreign key of D's public row names T's public row.
C13_ForwardMirrored ==
    (RealPublishOfDraft /\ err = "none") =>
        /\ db[op.id].live /\ db[op.id].public # Null
        /\ Mirrored(db[op.id].ref, db[db[op.id].public].ref)
        /\ Mirrored(db[op.id].parent, db[db[op.id].public].parent)

\* The drafts a record V names through its forward foreign keys and its
\* many-to-many relation, before the last call.
ForwardTargets(v) == ({old[v].ref, old[v].parent} \ {Null}) \cup old[v].tags

\* The last call walked to t through a reverse relation: as a child of a
\* record it added, or as a referrer of a record its deletion pass added.
ReachedByReverse(t) ==
    \/ old[t].parent \in vis
    \/ old[t].ref \in vis /\ old[old[t].ref].publish_state = PUBLISH_DELETE

\* Drafts other than the one publish() was called on that already had a
\* public row and were reached only through a forward or many-to-many
\* relation of a record whose fields the call copied.
Reused ==
    {t \in Drafts(old) \ {op.id} :
        /\ old[t].public # Null
        /\ ~ReachedByReverse(t)
        /\ \E v \in vis : old[v].publish_state # PUBLISH_DELETE /\ t \in ForwardTargets(v)}

\* C14: a publish() (not dry) does not publish again a related draft T that
\* already has a public row and is reached through a forward or many-to-many
\* relation: T is not added to all_published, no hook is sent and no field
\* copied for T, neither T's row nor its public row is saved, T keeps its
\* state and its public, and its public row stays with the same values.
C14_ReuseWithoutRepublish ==
    RealPublishOfDraft =>
        \A t \in Reused :
            /\ t \notin vis
            /\ \A n \in 1..Len(log) :
                  /\ log[n].id = t => log[n].ev \notin {"add", "pre", "post", "copy", "save"}
                  /\ log[n].id = old[t].public => log[n].ev \notin {"save", "delete"}
            /\ db[t].live
            /\ db[t].publish_state = old[t].publish_state
            /\ db[t].public = old[t].public
            /\ db[old[t].public].title = old[old[t].public].title

\* The draft children of draft p in storage d.
DraftChildren(d, p) == {c \in Children(d, p) : ~d[c].is_public}

\* C15: after a publish() (not dry) of draft P that returns, every draft
\* child of P that is not PENDING_DELETE has a public row; the children of
\* P's public row are exactly the public rows of P's draft children; a child
\* of P's public row that was no draft child's public row is removed by one
\* direct removal without being saved; and no draft's row is removed unless
\* the draft was PENDING_DELETE.
C15_ReversePublishPrune ==
    (RealPublishOfDraft /\ err = "none") =>
        /\ db[op.id].live /\ db[op.id].public # Null
        /\ \A c \in DraftChildren(db, op.id) :
              db[c].publish_state # PUBLISH_DELETE =>
                  /\ db[c].public # Null
                  /\ Live(db, db[c].public) /\ db[db[c].public].is_public
        /\ Children(db, db[op.id].public)
             = {db[c].public : c \in DraftChildren(db, op.id)} \ {Null}
        /\ Was.public # Null =>
              \A x \in Children(old, Was.public) :
                  (\A c \in DraftChildren(old, op.id) : old[c].public # x) =>
                      /\ ~Live(db, x)
                      /\ Count("delete", x) = 1
                      /\ Count("save", x) = 0
        /\ \A n \in Removals :
              IsDraftRow(old[log[n].id]) => old[log[n].id].publish_state = PUBLISH_DELETE

\* The drafts marked for deletion that name a record of S through parent
\* (declared, if declared) or through ref (if undeclared is set).
Marks(S, undeclared) ==
    {k \in Drafts(old) :
        /\ old[k].publish_state = PUBLISH_DELETE
        /\ \/ old[k].parent \in S
           \/ undeclared /\ old[k].ref \in S}

\* The records a deletion pass that starts at S gets to.
RECURSIVE Cascade(_, _)
Cascade(S, undeclared) ==
    IF Marks(S, undeclared) \subseteq S THEN S
    ELSE Cascade(S \cup Marks(S, undeclared), undeclared)

\* publish_deletions(), or publish(), was called on a draft that is
\* PENDING_DELETE.
DeletionCall ==
    /\ op.name \in {"publish", "publish_deletions"}
    /\ IsDraftRow(Was) /\ Was.publish_state = PUBLISH_DELETE

\* The rows the last call removed.
Removed == {log[n].id : n \in Removals}

\* C16 (as claimed): the deletion pass only adds and removes records it
\* reaches through the declared reverse relation, children.
C16_DeclaredOnly ==
    DeletionCall =>
        /\ vis \subseteq Cascade({op.id}, FALSE)
        /\ Removed \cap Drafts(old) \subseteq Cascade({op.id}, FALSE)

\* C16: the deletion pass adds to all_published exactly the drafts that are
\* PENDING_DELETE and that it reaches from the one it was called on through
\* reverse relations, declared (children) or not (referrers), by way of
\* drafts that are PENDING_DELETE; when not dry it removes exactly their
\* rows and their public rows, so a record in DEFAULT or CHANGED is neither
\* added nor removed.
C16_CascadeScope ==
    DeletionCall =>
        /\ err = "none"
        /\ vis = Cascade({op.id}, TRUE)
        /\ \A x \in vis : old[x].publish_state = PUBLISH_DELETE
        /\ Removed = IF op.dry THEN {}
                     ELSE vis \cup ({old[x].public : x \in vis} \ {Null})

\* A deletion pass that removed a referrer that is no child, and left a
\* child that was not marked for deletion.
C16_Witness ==
    /\ DeletionCall /\ ~op.dry /\ err = "none"
    /\ \E r \in vis : old[r].ref = op.id /\ old[r].parent # op.id /\ ~db[r].live
    /\ \E c \in Drafts(old) :
          /\ old[c].parent = op.id /\ old[c].publish_state # PUBLISH_DELETE
          /\ c \notin vis /\ db[c].live

\* The keys the last call's log names.
Logged == {log[n].id : n \in 1..Len(log)}

\* C17: in one publish() or publish_deletions() call, and in one
\* PublishableQuerySet.publish() over several drafts, every record is added
\* to all_published at most once, has its fields copied at most once and its
\* row removed at most once, and a row is saved at most once: coming to a
\* record again writes nothing.
C17_AtMostOnce ==
    (op.name \in {"publish", "publish_deletions", "publish_selected"} /\ ~op.dry) =>
        \A x \in Logged :
            /\ Count("add", x) <= 1
            /\ Count("copy", x) <= 1
            /\ Count("delete", x) <= 1
            /\ Count("save", x) <= 1
            /\ Count("pre", x) + Count("pre_deleted", x) <= 1
            /\ Count("post", x) + Count("post_deleted", x) <= 1

\* A query set of two drafts or more was published: one of its drafts had
\* been published on the way from an earlier item when the loop came to it,
\* and a draft marked for deletion had been removed from an earlier item.
C17_Witness ==
    /\ op.name = "publish_selected" /\ err = "none"
    /\ \E x \in vis :
          /\ Count("item", x) = 1 /\ Count("copy", x) = 1
          /\ \A n \in Positions("item", x) : \A m \in Positions("copy", x) : m < n
    /\ \E y \in vis :
          /\ Count("item", y) = 1 /\ Count("delete", y) = 1
          /\ \A n \in Positions("item", y) : \A m \in Positions("delete", y) : m < n

\* The last call was a traversal: publish(), publish_deletions() or a query
\* set's publish().
Traversal == op.name \in {"publish", "publish_deletions", "publish_selected"}

Hooks == {"pre", "post", "pre_deleted", "post_deleted"}

\* The record was PENDING_DELETE when the call began: the deletion pass
\* processes it.
ByDeletion(x) == old[x].publish_state = PUBLISH_DELETE

\* The places of the notifications sent for record x.
Before(x) == Positions("pre", x) \cup Positions("pre_deleted", x)
After(x) == Positions("post", x) \cup Positions("post_deleted", x)

\* The rows of record x: its own and its public row, old or new.
RowsOf(x) ==
    ({x, old[x].public} \cup {log[n].arg : n \in Positions("copy", x)}) \ {Null}

\* The places where the last call, processing record x, wrote or removed a
\* row of x: the field copy, the saves and the many-to-many write, or the
\* removals of the deletion pass.
WritesOf(x) ==
    {n \in 1..Len(log) :
        /\ log[n].id \in RowsOf(x)
        /\ log[n].ev \in (IF ByDeletion(x) THEN {"delete"} ELSE {"copy", "save", "m2m"})}

\* One notification before and one after, of the right kind, around the
\* writes of x and inside the pair of the record that reached x.
HookPair(x) ==
    /\ Before(x) = Positions(IF ByDeletion(x) THEN "pre_deleted" ELSE "pre", x)
    /\ After(x) = Positions(IF ByDeletion(x) THEN "post_deleted" ELSE "post", x)
    /\ Cardinality(Before(x)) = 1
    /\ Cardinality(After(x)) = 1
    /\ \A b \in Before(x) : \A a \in After(x) :
          /\ b < a
          /\ \A n \in WritesOf(x) : b < n /\ n < a
          /\ \A m \in Positions("add", x) :
                log[m].arg # Null =>
                    /\ \E pb \in Before(log[m].arg) : pb < b
                    /\ \E pa \in After(log[m].arg) : a < pa

\* C18: in a traversal that is not a dry run every record added to
\* all_published gets one 'before' notification ahead of every write or
\* removal of its rows and one 'after' notification behind them, both with
\* deleted set exactly when the record was PENDING_DELETE, and both inside
\* the pair of the record that reached it; a dry run sends no notification.
C18_HookOrder ==
    Traversal =>
        IF op.dry THEN \A n \in 1..Len(log) : log[n].ev \notin Hooks
        ELSE \A x \in vis : HookPair(x)

\* C19: every public row has public NULL and is not PENDING_DELETE; a call
\* leaves is_public, publish_state and public of every public row it does
\* not remove as they were, the field copy included; and the three fields are
\* in excluded_fields whatever a subclass's own PublishMeta lists.
C19_PublicPassive ==
    /\ \A i \in Publics(db) :
          /\ db[i].public = Null
          /\ db[i].publish_state # PUBLISH_DELETE
    /\ \A i \in Publics(old) :
          db[i].live =>
              /\ db[i].is_public
              /\ db[i].publish_state = old[i].publish_state
              /\ db[i].public = old[i].public
    /\ \A own \in SUBSET ModelFields :
          {"is_public", "publish_state", "public"} \subseteq excluded_fields(own)

\* A changed draft was published again: the copy wrote a new title to its
\* public row, which is still a public row in its first state.
C19_Witness ==
    /\ op.name = "publish" /\ ~op.dry /\ err = "none"
    /\ IsDraftRow(Was) /\ Was.public # Null
    /\ Was.publish_state = PUBLISH_CHANGED
    /\ Count("copy", op.id) = 1
    /\ db[Was.public].title # old[Was.public].title
    /\ db[Was.public].is_public
    /\ db[Was.public].publish_state = PUBLISH_CHANGED
    /\ db[Was.public].public = Null

\* The pairing of drafts and public rows in storage d: the public of a draft
\* names a row that is there and is a public row, and no two drafts name
\* the same one.
Paired(d) ==
    \A i \in Ids :
        (d[i].live /\ ~d[i].is_public /\ d[i].public # Null) =>
            /\ Live(d, d[i].public)
            /\ d[d[i].public].is_public
            /\ \A j \in Ids \ {i} :
                  (d[j].live /\ ~d[j].is_public) => d[j].public # d[i].public

\* Storage d after the write or removal that event e of the log notes.
\* (Many-to-many writes touch no public field.)
Apply(d, e) ==
    IF e.ev = "save" THEN StorageSave(d, e.id, e.row)
    ELSE IF e.ev = "delete" THEN StorageDelete(d, e.id)
    ELSE d

\* Storage is Paired from event n on to the end of the last call, d being
\* the storage before event n; at the end it is the storage the call left.
RECURSIVE PairedFrom(_, _)
PairedFrom(d, n) ==
    /\ Paired(d)
    /\ IF n > Len(log)
       THEN \A i \in Ids : [d[i] EXCEPT !.tags = {}] = [db[i] EXCEPT !.tags = {}]
       ELSE PairedFrom(Apply(d, log[n]), n + 1)

\* C20: in every state, and at every point inside a call where it wrote
\* or removed a row, the public of a draft names a row that is in storage
\* and is a public row, and no two drafts name the same public row.
C20_Pairing ==
    /\ Paired(db)
    /\ PairedFrom(old, 1)

\* An unpublish() wrote the draft and then removed the public row, and a
\* deletion pass removed a draft and then its public row: the points in
\* between are in the log.
C20_Witness ==
    /\ err = "none" /\ ~op.dry
    /\ Was.public # Null /\ ~Live(db, Was.public)
    /\ \/ /\ op.name = "unpublish"
          /\ Len(log) = 2
          /\ log[1].ev = "save" /\ log[1].id = op.id
          /\ log[2].ev = "delete" /\ log[2].id = Was.public
       \/ /\ op.name = "publish_deletions"
          /\ Count("delete", op.id) = 1 /\ Count("delete", Was.public) = 1
          /\ RemovalOf(op.id) < RemovalOf(Was.public)

\* The draft of key i matches a public row: it is DEFAULT.
IsDefaultDraft(d, i) ==
    d[i].live /\ ~d[i].is_public /\ d[i].publish_state = PUBLISH_DEFAULT

\* The draft of key i has its public row.
HasMirror(d, i) ==
    /\ d[i].public # Null
    /\ Live(d, d[i].public)
    /\ d[d[i].public].is_public

\* The last call was one of the operations of a draft, made on a draft, and
\* it returned.
DraftCallReturned ==
    /\ op.name \in {"create", "save", "delete", "undelete", "publish",
                    "unpublish", "publish_deletions"}
    /\ err = "none"
    /\ op.name # "create" => IsDraftRow(Was)

\* The draft of key i is DEFAULT and has no public row.
Unmirrored(d, i) == IsDefaultDraft(d, i) /\ ~HasMirror(d, i)

\* C21: once a save, delete, undelete, publish, unpublish or
\* publish_deletions of a draft has returned, every draft that is DEFAULT
\* has a public that names a public row in storage, unless it was already
\* without one before the call.
C21_DefaultHasMirror ==
    DraftCallReturned =>
        \A i \in Ids : Unmirrored(db, i) => Unmirrored(old, i)

\* The round trip is over: the last call is the second of the two.
Republished == left = 0 /\ op.name = "publish" /\ ~op.dry
Resaved == left = 0 /\ op.name = "save" /\ op.flag

\* Row p is a public row the last call made, with the title of the draft
\* it was called on and the mirror of its foreign keys and of its
\* many-to-many relation.
NewMirror(p) ==
    /\ p # Null
    /\ ~old[p].live
    /\ Live(db, p) /\ db[p].is_public
    /\ db[p].title = db[op.id].title
    /\ Mirrored(db[op.id].ref, db[p].ref)
    /\ Mirrored(db[op.id].parent, db[p].parent)
    /\ \A t \in db[op.id].tags : Mirrored(t, db[t].public)
    /\ db[p].tags = {db[t].public : t \in db[op.id].tags}

\* C22: an unpublish() (not dry) of a published draft that returns leaves
\* the draft CHANGED with public NULL; the publish() that follows leaves the
\* draft DEFAULT with a new public row that holds the draft's title and
\* mirrors its foreign keys and many-to-many relation, and returns that row
\* when it returns.  An undelete() of a PENDING_DELETE draft leaves it
\* CHANGED, its public and its public row as they were; the save() that
\* follows returns.
C22_RoundTrip ==
    /\ Unpublished =>
          /\ IsDraftRow(db[op.id])
          /\ db[op.id].publish_state = PUBLISH_CHANGED
          /\ db[op.id].public = Null
    /\ Republished =>
          /\ IsDraftRow(db[op.id])
          /\ db[op.id].publish_state = PUBLISH_DEFAULT
          /\ NewMirror(db[op.id].public)
          /\ err = "none" => ret = db[op.id].public
    /\ Undeleted =>
          /\ IsDraftRow(db[op.id])
          /\ db[op.id].publish_state = PUBLISH_CHANGED
          /\ db[op.id].public = Was.public
          /\ Was.public # Null => db[Was.public] = old[Was.public]
    /\ Resaved =>
          /\ err = "none"
          /\ db[op.id].publish_state = PUBLISH_CHANGED

====
